---------------------------- MODULE Spec2Model ----------------------------
(***************************************************************************)
(* Bolsa de Caracas: the ingest-and-query core of the server revisions.    *)
(*                                                                         *)
(* fetchAndStore (gate, upstream fetch, one Postgres transaction that      *)
(* inserts one row per instrument, prunes old rows and commits) and the    *)
(* two read endpoints /api/bolsa/actual and /api/bolsa/historial, for the  *)
(* revision without WebSocket (server.js, same queries as part_003) and    *)
(* the WebSocket revision (part_005).                                      *)
(*                                                                         *)
(* Time is counted in ticks, DayLen ticks to a calendar day.  A row of     *)
(* table precios is modelled by its id, symbol and fecha_registro.         *)
(* The awaits of fetchAndStore are points where another cycle may run;     *)
(* the actions cut the function at those that matter for the table: the    *)
(* start of the transaction, its statements, COMMIT and the catch block.   *)
(***************************************************************************)
EXTENDS Integers, Sequences, FiniteSets, TLC

VARIABLES
    variant,    \* which revision is deployed: "server" (server.js) or "ws" (part_005)
    now,        \* the wall clock / database clock, in ticks
    nextId,     \* next value of the SERIAL sequence behind precios.id
    precios,    \* the committed rows of table precios
    cycles,     \* the fetchAndStore invocations in flight, one slot per trigger
    resp,       \* what the last step sent out: an HTTP response, a broadcast (NoResp if none)
    instagram,  \* the Instagram publisher: login flag, scheduled job, what it published
    dashboard   \* the browser page of index.js: its data, its WebSocket, its timers

vars == <<variant, now, nextId, precios, cycles, resp, instagram, dashboard>>

-----------------------------------------------------------------------------
(* Bounds of the model *)

MaxTime == 3        \* the clock of the ingest specification stops ticking here
MaxId == 2          \* ids the SERIAL sequence hands out in the ingest specification
QueryNow == 5       \* latest clock value of the query specification
MaxRows == 2        \* rows of the tables the query specification starts from
DayLen == 2         \* ticks per calendar day

(* const cleanup_days = parseInt(process.env.DB_CLEANUP_DAYS) || 30, here   *)
(* configured through DB_CLEANUP_DAYS to a value the clock can exceed.      *)
cleanup_days == 1

Variants == {"server", "ws"}
Cycles == {"timer", "manual"}       \* setInterval(fetchAndStore) and GET /api/fetch-data
Symbols == {"A", "B"}               \* COD_SIMB values the upstream serves
Unknown == "NOPE"                   \* a symbol that is never stored
SymRank == [A |-> 1, B |-> 2, NOPE |-> 3]   \* text collation order of the symbols

(* response.data of the upstream: a JSON array of instruments *)
Upstream == {<< >>, <<"A">>, <<"A", "B">>}

Row(i, s, f) == [id |-> i, symbol |-> s, fecha_registro |-> f]

-----------------------------------------------------------------------------
(* Caracas market-hours gate *)

WeekDays == 0..6                    \* Date.getDay(): 0 = Sunday, 6 = Saturday
Hours == {8, 9, 12, 13, 14}
Minutes == {0, 9, 10}

(* the closing hour compared with > instead of >= *)
marketClosedLate(day, hour) ==
    day = 0 \/ day = 6 \/ hour < 9 \/ hour > 13

(* server.js: if (day === 0 || day === 6 || hour < 9 || hour >= 13) return *)
marketClosed(day, hour) ==
    day = 0 \/ day = 6 \/ hour < 9 \/ hour >= 13

(* the gate of part_005 closing at 13:00 sharp, the minute not looked at *)
marketClosedAtOne(day, hour, minute) ==
    day = 0 \/ day = 6 \/ hour < 9 \/ hour >= 13

(* part_005: ... || hour < 9 || (hour > 13 || (hour === 13 && minutes >= 10)) *)
marketClosedWS(day, hour, minute) ==
    day = 0 \/ day = 6 \/ hour < 9 \/ (hour > 13 \/ (hour = 13 /\ minute >= 10))

gateClosed(day, hour, minute) ==
    IF variant = "ws" THEN marketClosedWS(day, hour, minute)
    ELSE marketClosed(day, hour)

-----------------------------------------------------------------------------
(* SQL, as the read endpoints use it.  A result is a sequence of rows; where *)
(* the statement leaves the order or the choice among equal keys open, every *)
(* outcome Postgres may produce is a possible result.                        *)

Range(seq) == {seq[i] : i \in 1..Len(seq)}

Perms(S) ==
    {f \in [1..Cardinality(S) -> S] : \A i, j \in 1..Cardinality(S) : i # j => f[i] # f[j]}

(* ORDER BY: key is the integer sort key of each row, ascending *)
OrderBy(S, key) ==
    {f \in Perms(S) : \A i, j \in 1..Len(f) : i < j => key[f[i]] <= key[f[j]]}

(* SELECT DISTINCT ON (key): the first row of each run of equal keys *)
DistinctOn(seq, key) ==
    SelectSeq(seq, LAMBDA r :
        \E i \in 1..Len(seq) :
            /\ seq[i] = r
            /\ \A j \in 1..(i - 1) : key[seq[j]] # key[r])

(* DATE(fecha_registro): the calendar day of a timestamp *)
DateOf(f) == f \div DayLen

(* sort keys: fecha_registro ASC, fecha_registro DESC, and the two-column    *)
(* keys (symbol, fecha_registro DESC) and (DATE(fecha_registro) ASC,         *)
(* fecha_registro DESC) folded into one integer, a timestamp being less than *)
(* Span                                                                      *)
Span == MaxTime + QueryNow + 1
FechaAsc(S) == [r \in S |-> r.fecha_registro]
FechaDesc(S) == [r \in S |-> 0 - r.fecha_registro]
SymbolThenFechaDesc(S) == [r \in S |-> SymRank[r.symbol] * Span - r.fecha_registro]
DateThenFechaDesc(S) ==
    [r \in S |-> DateOf(r.fecha_registro) * DayLen * Span - r.fecha_registro]

(* SELECT precio, hora, fecha_registro: the columns a historial row keeps *)
Project(seq) == [i \in 1..Len(seq) |-> [fecha_registro |-> seq[i].fecha_registro]]

(* server.js, part_003 /actual:                                              *)
(* SELECT * FROM precios WHERE fecha_registro = (SELECT MAX(fecha_registro)  *)
(* FROM precios)                                                             *)
actualQuery(tbl) ==
    Perms({r \in tbl : \A q \in tbl : q.fecha_registro <= r.fecha_registro})

(* the latest snapshot taken as the rows of the newest timestamp *)
getLatestGlobalMax(tbl) ==
    actualQuery(tbl)

(* part_005 getLatestMarketData:                                             *)
(* SELECT * FROM (SELECT DISTINCT ON (symbol) * FROM precios                 *)
(* ORDER BY symbol, fecha_registro DESC) sub ORDER BY fecha_registro DESC    *)
getLatestMarketData(tbl) ==
    UNION {
        OrderBy(Range(DistinctOn(inner, [r \in tbl |-> r.symbol])), FechaDesc(tbl)) :
        inner \in OrderBy(tbl, SymbolThenFechaDesc(tbl))}

(* the symbol's rows of any age (the WHERE clause without its time bound) *)
WholeHistory(tbl, symbol, n, at) ==
    {r \in tbl : r.symbol = symbol}

(* WHERE symbol = $1 AND fecha_registro >= NOW() - interval of n days *)
InWindow(tbl, symbol, n, at) ==
    {r \in tbl : r.symbol = symbol /\ r.fecha_registro >= at - n * DayLen}

(* the window's rows in whatever order the scan returns them (no ORDER BY) *)
historialUnordered(tbl, symbol, daysLimit, at) ==
    {Project(f) : f \in Perms(InWindow(tbl, symbol, daysLimit, at))}

(* part_005, part_001, part_004 /historial: every row of the window,         *)
(* ORDER BY fecha_registro ASC                                               *)
historialAll(tbl, symbol, daysLimit, at) ==
    {Project(f) : f \in OrderBy(InWindow(tbl, symbol, daysLimit, at), FechaAsc(tbl))}

(* one row per day, but the day's first (inner ORDER BY ... fecha_registro ASC) *)
historialDailyFirst(tbl, symbol, daysLimit, at) ==
    UNION {
        {Project(f) : f \in OrderBy(
            Range(DistinctOn(inner, [r \in tbl |-> DateOf(r.fecha_registro)])),
            FechaAsc(tbl))} :
        inner \in OrderBy(InWindow(tbl, symbol, daysLimit, at), FechaAsc(tbl))}

(* server.js, part_003 /historial, daysLimit # 1:                            *)
(* SELECT * FROM (SELECT DISTINCT ON (DATE(fecha_registro)) ... WHERE ...    *)
(* ORDER BY DATE(fecha_registro) ASC, fecha_registro DESC) sub               *)
(* ORDER BY fecha_registro ASC                                               *)
historialDaily(tbl, symbol, daysLimit, at) ==
    UNION {
        {Project(f) : f \in OrderBy(
            Range(DistinctOn(inner, [r \in tbl |-> DateOf(r.fecha_registro)])),
            FechaAsc(tbl))} :
        inner \in OrderBy(InWindow(tbl, symbol, daysLimit, at), DateThenFechaDesc(tbl))}

(* server.js, part_003: if (daysLimit === 1) intraday else one row per day *)
historialServer(tbl, symbol, daysLimit, at) ==
    IF daysLimit = 1
    THEN historialAll(tbl, symbol, 1, at)
    ELSE historialDaily(tbl, symbol, daysLimit, at)

-----------------------------------------------------------------------------
(* The state of one fetchAndStore invocation.  todo is what the for-of loop  *)
(* over scrapedData has still to insert; pending and deleted are the open    *)
(* transaction's uncommitted inserts and deletions; overlapped records that  *)
(* another cycle committed after this one's DELETE ran; client tells that    *)
(* the call holds a client checked out of the pool and not yet released;     *)
(* inserted are the rows the call's transaction committed, in scope until    *)
(* the call returns.                                                         *)

IdleCycle ==
    [pc |-> "idle", todo |-> << >>, txnNow |-> 0,
     pending |-> {}, deleted |-> {}, overlapped |-> FALSE,
     client |-> FALSE, inserted |-> {}]

(* pc values of a slot with no call in flight: never called, or how the last  *)
(* call returned (gate closed, download error logged, save error logged,     *)
(* error thrown out of the catch block, saved)                               *)
Returned == {"idle", "skipped", "fetch-failed", "write-failed", "rejected", "saved"}

NoResp == [ep |-> "none"]

(* the publisher before login: part_005 line 51, no job running, nothing posted *)
NoPost == [kind |-> "none", by |-> "none", pages |-> << >>]
NoInstagram ==
    [igLoggedIn |-> FALSE, marketData |-> << >>, job |-> "idle",
     calls |-> << >>, post |-> NoPost]

(* the page before its script ran: index.js lines 8 and 14; 0 stands for null *)
NoPayload == [via |-> "none", data |-> << >>]
NoDashboard ==
    [marketData |-> << >>, lastUpdateTimestamp |-> 0, repaints |-> 0,
     delivered |-> NoPayload, http |-> [state |-> "none", data |-> << >>],
     sockets |-> << >>, timers |-> << >>, serverUp |-> TRUE]

TypeOK ==
    /\ variant \in Variants
    /\ now \in 0..(MaxTime + QueryNow)
    /\ nextId \in 1..(MaxId + MaxRows + 1)
    /\ \A r \in precios : r.id \in 1..(nextId - 1) /\ r.symbol \in Symbols
                          /\ r.fecha_registro \in 0..now
    /\ \A c \in Cycles :
          cycles[c].pc \in Returned \cup {"txn", "commit", "notify", "catch"}

Init ==
    /\ variant \in Variants
    /\ now = 0
    /\ nextId = 1
    /\ precios = {}
    /\ cycles = [c \in Cycles |-> IdleCycle]
    /\ resp = NoResp
    /\ instagram = NoInstagram
    /\ dashboard = NoDashboard

-----------------------------------------------------------------------------
(* Postgres, as fetchAndStore uses it.  A transaction's rows carry          *)
(* fecha_registro = CURRENT_TIMESTAMP, the time of its BEGIN, and NOW() in   *)
(* its DELETE is that same time.  Its inserts and deletions are private     *)
(* until COMMIT, which applies them at once; ROLLBACK discards them.         *)

(* for (const item of scrapedData) await client.query(insertQuery, [...]):    *)
(* the rows the first n iterations insert, ids from the sequence in loop     *)
(* order, fecha_registro from the column default                             *)
InsertRows(txn, firstId, n) ==
    {Row(firstId + i - 1, txn.todo[i], txn.txnNow) : i \in 1..n}

(* the DELETE with the interval left out: fecha_registro <= NOW() *)
PruneUpToNow(visible, txnNow) ==
    {r \in visible : r.fecha_registro <= txnNow}

(* DELETE FROM precios WHERE fecha_registro <= NOW() - INTERVAL              *)
(* '${cleanup_days} days': the rows the statement sees and removes           *)
PruneSet(visible, txnNow) ==
    {r \in visible : r.fecha_registro <= txnNow - cleanup_days * DayLen}

(* a commit that overwrites the stored row of a symbol (UPDATE ... SET       *)
(* fecha_registro = NOW() WHERE symbol = ...) and inserts only new symbols   *)
CommitUpsert(tbl, txn) ==
    LET syms == {p.symbol : p \in txn.pending}
    IN  ({IF r.symbol \in syms THEN [r EXCEPT !.fecha_registro = txn.txnNow] ELSE r :
             r \in tbl}
         \cup {p \in txn.pending : \A r \in tbl : r.symbol # p.symbol}) \ txn.deleted

(* COMMIT *)
CommitTxn(tbl, txn) ==
    (tbl \cup txn.pending) \ txn.deleted

(* a rollback that leaves the inserts made so far in the table, as statements *)
(* run outside a transaction would                                           *)
RollbackKeepsInserts(tbl, txn) ==
    tbl \cup txn.pending

(* ROLLBACK *)
RollbackTxn(tbl, txn) ==
    tbl

SetCycle(c, rec) == cycles' = [cycles EXCEPT ![c] = rec]
NoOutput == resp' = NoResp

(* a call that has returned leaves in pc what it logged on its way out *)
Return(c, outcome) == SetCycle(c, [IdleCycle EXCEPT !.pc = outcome])

-----------------------------------------------------------------------------
(* fetchAndStore(force): timer calls pass no argument (force = false),       *)
(* GET /api/fetch-data passes true.  The gate and the awaited download read  *)
(* nothing another handler writes, so they are taken in one step with the    *)
(* first statement that does (pool.connect and BEGIN); the insert loop and   *)
(* the DELETE touch only the transaction's private state and are one step.   *)

force(c) == c = "manual"

(* if (!force) { ... if (closed) { log; return } } *)
GateOpen(c) ==
    (force(c) \/ \E day \in WeekDays, hour \in Hours, minute \in Minutes :
                    ~gateClosed(day, hour, minute)) = TRUE

GateShut(c) ==
    (~force(c) /\ \E day \in WeekDays, hour \in Hours, minute \in Minutes :
                     gateClosed(day, hour, minute)) = TRUE

(* the gate closes the cycle: log "Mercado cerrado" and return *)
Skip(c) ==
    /\ cycles[c].pc \in Returned
    /\ GateShut(c)
    /\ Return(c, "skipped")
    /\ NoOutput
    /\ UNCHANGED <<instagram, dashboard, variant, now, nextId, precios>>

(* a download error that falls through to the save step with scrapedData =  *)
(* [] (the catch block without its return), so the prune runs and commits   *)
FetchFailFallsThrough(c) ==
    /\ cycles[c].pc \in Returned
    /\ GateOpen(c)
    /\ precios' = precios \ PruneSet(precios, now)
    /\ Return(c, "fetch-failed")
    /\ NoOutput
    /\ UNCHANGED <<instagram, dashboard, variant, now, nextId>>

(* the gate passes and axios.get rejects (network error, non-2xx): the catch *)
(* block logs and returns                                                    *)
FetchFail(c) ==
    /\ cycles[c].pc \in Returned
    /\ GateOpen(c)
    /\ Return(c, "fetch-failed")
    /\ NoOutput
    /\ UNCHANGED <<instagram, dashboard, variant, now, nextId, precios>>

(* axios.get resolves but pool.connect() rejects: client stays undefined, so *)
(* the catch block logs without ROLLBACK and finally releases nothing        *)
ConnectFail(c) ==
    /\ cycles[c].pc \in Returned
    /\ GateOpen(c)
    /\ Return(c, "write-failed")
    /\ NoOutput
    /\ UNCHANGED <<instagram, dashboard, variant, now, nextId, precios>>

(* a call that starts only when no other call is in flight (a mutex around  *)
(* fetchAndStore), an overlapping trigger being dropped                      *)
BeginSerialized(c) ==
    /\ cycles[c].pc \in Returned
    /\ \A d \in Cycles \ {c} : cycles[d].pc \in Returned
    /\ GateOpen(c)
    /\ \E data \in Upstream :
          SetCycle(c, [IdleCycle EXCEPT !.pc = "txn", !.todo = data, !.txnNow = now,
                                    !.client = TRUE])
    /\ NoOutput
    /\ UNCHANGED <<instagram, dashboard, variant, now, nextId, precios>>

(* scrapedData = response.data; client = await pool.connect();               *)
(* await client.query('BEGIN')                                               *)
Begin(c) ==
    /\ cycles[c].pc \in Returned
    /\ GateOpen(c)
    /\ \E data \in Upstream :
          SetCycle(c, [IdleCycle EXCEPT !.pc = "txn", !.todo = data, !.txnNow = now,
                                    !.client = TRUE])
    /\ NoOutput
    /\ UNCHANGED <<instagram, dashboard, variant, now, nextId, precios>>

(* the client is connected and BEGIN rejects *)
BeginFail(c) ==
    /\ cycles[c].pc \in Returned
    /\ GateOpen(c)
    /\ SetCycle(c, [IdleCycle EXCEPT !.pc = "catch", !.client = TRUE])
    /\ NoOutput
    /\ UNCHANGED <<instagram, dashboard, variant, now, nextId, precios>>

(* the inserts and the DELETE run outside a transaction (as in the SQLite    *)
(* revision), each taking effect on the table at once                        *)
WriteAutocommit(c) ==
    LET txn == cycles[c]
        n == Len(txn.todo)
        rows == InsertRows(txn, nextId, n)
    IN  /\ txn.pc = "txn"
        /\ nextId + n - 1 <= MaxId
        /\ precios' = (precios \cup rows) \ PruneSet(precios \cup rows, txn.txnNow)
        /\ SetCycle(c, [txn EXCEPT !.pc = "commit", !.todo = << >>])
        /\ nextId' = nextId + n
        /\ NoOutput
        /\ UNCHANGED <<instagram, dashboard, variant, now>>

(* the insert loop runs to its end and the prune DELETE follows *)
Write(c) ==
    LET txn == cycles[c]
        n == Len(txn.todo)
        rows == InsertRows(txn, nextId, n)
    IN  /\ txn.pc = "txn"
        /\ nextId + n - 1 <= MaxId
        /\ SetCycle(c, [txn EXCEPT !.pc = "commit", !.todo = << >>,
                                   !.pending = rows,
                                   !.deleted = PruneSet(precios \cup rows, txn.txnNow)])
        /\ nextId' = nextId + n
        /\ NoOutput
        /\ UNCHANGED <<instagram, dashboard, variant, now, precios>>

(* the k-th insert rejects after k - 1 inserts went through, or (k = N + 1)  *)
(* the DELETE rejects after all N did: control passes to the catch block     *)
(* with the transaction still open                                           *)
StatementFail(c) ==
    LET txn == cycles[c]
    IN  /\ txn.pc = "txn"
        /\ \E k \in 1..(Len(txn.todo) + 1) :
              /\ nextId + k - 2 <= MaxId
              /\ SetCycle(c, [IdleCycle EXCEPT !.pc = "catch", !.client = TRUE,
                                 !.pending = InsertRows(txn, nextId, k - 1)])
              /\ nextId' = nextId + k - 1
        /\ NoOutput
        /\ UNCHANGED <<instagram, dashboard, variant, now, precios>>

(* await client.query('COMMIT'); log "Datos guardados".  server.js then      *)
(* releases the client in finally; part_005 goes on to notify its clients.   *)
Commit(c) ==
    /\ cycles[c].pc = "commit"
    /\ precios' = CommitTxn(precios, cycles[c])
    /\ cycles' = [d \in Cycles |->
          IF d = c
          THEN IF variant = "ws"
               THEN [IdleCycle EXCEPT !.pc = "notify", !.client = TRUE,
                                      !.inserted = cycles[c].pending]
               ELSE [IdleCycle EXCEPT !.pc = "saved"]
          ELSE IF cycles[d].pc = "commit"
               THEN [cycles[d] EXCEPT !.overlapped = TRUE]
               ELSE cycles[d]]
    /\ NoOutput
    /\ UNCHANGED <<instagram, dashboard, variant, now, nextId>>

(* COMMIT rejects: nothing is applied, control passes to the catch block *)
CommitFail(c) ==
    /\ cycles[c].pc = "commit"
    /\ SetCycle(c, [IdleCycle EXCEPT !.pc = "catch", !.client = TRUE,
                                 !.pending = cycles[c].pending])
    /\ NoOutput
    /\ UNCHANGED <<instagram, dashboard, variant, now, nextId, precios>>

(* the catch block of a revision that notifies its clients in finally, so   *)
(* after a rollback too                                                      *)
CatchThenBroadcast(c) ==
    /\ cycles[c].pc = "catch"
    /\ precios' = RollbackTxn(precios, cycles[c])
    /\ Return(c, "write-failed")
    /\ \E rows \in getLatestMarketData(precios) :
          resp' = [ep |-> "broadcast", trigger |-> c, rows |-> rows]
    /\ UNCHANGED <<instagram, dashboard, variant, now, nextId>>

(* catch: if (client) await client.query('ROLLBACK'); log the save error;    *)
(* finally: client.release()                                                 *)
Catch(c) ==
    /\ cycles[c].pc = "catch"
    /\ precios' = RollbackTxn(precios, cycles[c])
    /\ Return(c, "write-failed")
    /\ NoOutput
    /\ UNCHANGED <<instagram, dashboard, variant, now, nextId>>

(* the ROLLBACK rejects and the client is not released (release at the end  *)
(* of the catch block instead of in finally)                                 *)
CatchRollbackFailLeaks(c) ==
    /\ cycles[c].pc = "catch"
    /\ SetCycle(c, [IdleCycle EXCEPT !.pc = "rejected", !.client = TRUE])
    /\ NoOutput
    /\ UNCHANGED <<instagram, dashboard, variant, now, nextId, precios>>

(* catch: the ROLLBACK itself rejects (connection lost, so the server drops  *)
(* the transaction); the error leaves fetchAndStore after finally            *)
CatchRollbackFail(c) ==
    /\ cycles[c].pc = "catch"
    /\ Return(c, "rejected")
    /\ NoOutput
    /\ UNCHANGED <<instagram, dashboard, variant, now, nextId, precios>>

(* part_005 broadcast(data): the JSON of data sent to every open client *)
Broadcast(c, rows) == [ep |-> "broadcast", trigger |-> c, rows |-> rows]

(* part_005, after COMMIT: latestData = await getLatestMarketData();         *)
(* broadcast(latestData); finally releases the client                        *)
Notify(c) ==
    /\ cycles[c].pc = "notify"
    /\ \E rows \in getLatestMarketData(precios) : resp' = Broadcast(c, rows)
    /\ Return(c, "saved")
    /\ UNCHANGED <<instagram, dashboard, variant, now, nextId, precios>>

(* part_005, after COMMIT: getLatestMarketData() rejects inside the try      *)
NotifyFail(c) ==
    /\ cycles[c].pc = "notify"
    /\ SetCycle(c, [IdleCycle EXCEPT !.pc = "catch", !.client = TRUE])
    /\ NoOutput
    /\ UNCHANGED <<instagram, dashboard, variant, now, nextId, precios>>

(* the clock advances *)
Tick ==
    /\ now < MaxTime
    /\ now' = now + 1
    /\ NoOutput
    /\ UNCHANGED <<instagram, dashboard, variant, nextId, precios, cycles>>

Ingest ==
    \E c \in Cycles :
        \/ Skip(c)
        \/ FetchFail(c)
        \/ ConnectFail(c)
        \/ Begin(c)
        \/ BeginFail(c)
        \/ Write(c)
        \/ StatementFail(c)
        \/ Commit(c)
        \/ CommitFail(c)
        \/ Catch(c)
        \/ CatchRollbackFail(c)
        \/ Notify(c)
        \/ NotifyFail(c)

Next ==
    \/ Ingest
    \/ Tick

Spec == Init /\ [][Next]_vars

-----------------------------------------------------------------------------
(* const daysLimit = parseInt(days) || 1.  A path parameter is a sequence    *)
(* of characters.                                                            *)

Digits == <<"0", "1", "2", "3", "4", "5", "6", "7", "8", "9">>
IsDigit(ch) == \E d \in 1..10 : Digits[d] = ch
DigitVal(ch) == (CHOOSE d \in 1..10 : Digits[d] = ch) - 1

NaN == [nan |-> TRUE, val |-> 0]

(* the value of the longest run of digits s starts with, after acc digits *)
RECURSIVE LeadingDigits(_, _, _)
LeadingDigits(s, acc, seen) ==
    IF s # << >> /\ IsDigit(Head(s))
    THEN LeadingDigits(Tail(s), 10 * acc + DigitVal(Head(s)), TRUE)
    ELSE IF seen THEN [nan |-> FALSE, val |-> acc] ELSE NaN

(* parseInt: an optional sign, then digits; NaN when no digit follows *)
parseInt(s) ==
    LET signed == s # << >> /\ Head(s) \in {"-", "+"}
        digits == LeadingDigits(IF signed THEN Tail(s) ELSE s, 0, FALSE)
    IN  IF digits.nan THEN NaN
        ELSE IF signed /\ Head(s) = "-"
             THEN [nan |-> FALSE, val |-> 0 - digits.val]
             ELSE digits

(* parseInt(days) || 1: NaN and 0 are falsy *)
daysLimitOf(days) ==
    LET n == parseInt(days)
    IN  IF n.nan \/ n.val = 0 THEN 1 ELSE n.val

(* the :days path parameters requests are made with *)
DaysParams == {<<"1">>, <<"2">>, <<"3">>, <<"0">>, <<"-", "1">>, <<"x">>, <<"2", "x">>}

(* the :symbol path parameters requests are made with *)
SymbolParams == Symbols \cup {Unknown}

-----------------------------------------------------------------------------
(* The request handlers.  try { result = await pool.query(...);              *)
(* res.json(result.rows) } catch (err) { res.status(500).json({error}) }     *)

(* a handler that answers an empty result with 404, as post-summary does *)
ResponseNotFoundOnEmpty(endpoint, symbol, days, rejected, rows) ==
    [ep |-> endpoint, symbol |-> symbol, days |-> days, rejected |-> rejected,
     status |-> IF rejected THEN 500 ELSE IF rows = << >> THEN 404 ELSE 200,
     rows |-> IF rejected THEN << >> ELSE rows]

Response(endpoint, symbol, days, rejected, rows) ==
    [ep |-> endpoint, symbol |-> symbol, days |-> days, rejected |-> rejected,
     status |-> IF rejected THEN 500 ELSE 200,
     rows |-> IF rejected THEN << >> ELSE rows]

(* GET /api/bolsa/actual of the deployed revision *)
actualRows(tbl) ==
    IF variant = "ws" THEN getLatestMarketData(tbl) ELSE actualQuery(tbl)

(* every revision down-sampling to one row per day *)
historialRowsDaily(tbl, symbol, days, at) ==
    historialServer(tbl, symbol, daysLimitOf(days), at)

(* GET /api/bolsa/historial/:symbol/:days of the deployed revision *)
historialRows(tbl, symbol, days, at) ==
    IF variant = "ws"
    THEN historialAll(tbl, symbol, daysLimitOf(days), at)
    ELSE historialServer(tbl, symbol, daysLimitOf(days), at)

GetActual ==
    /\ resp = NoResp
    /\ \E rows \in actualRows(precios) :
          resp' = Response("actual", "", << >>, FALSE, rows)
    /\ UNCHANGED <<instagram, dashboard, variant, now, nextId, precios, cycles>>

(* pool.query rejects: the storage cannot be reached *)
GetActualFail ==
    /\ resp = NoResp
    /\ resp' = Response("actual", "", << >>, TRUE, << >>)
    /\ UNCHANGED <<instagram, dashboard, variant, now, nextId, precios, cycles>>

GetHistorial ==
    /\ resp = NoResp
    /\ \E symbol \in SymbolParams, days \in DaysParams :
          \E rows \in historialRows(precios, symbol, days, now) :
              resp' = Response("historial", symbol, days, FALSE, rows)
    /\ UNCHANGED <<instagram, dashboard, variant, now, nextId, precios, cycles>>

GetHistorialFail ==
    /\ resp = NoResp
    /\ \E symbol \in SymbolParams, days \in DaysParams :
          resp' = Response("historial", symbol, days, TRUE, << >>)
    /\ UNCHANGED <<instagram, dashboard, variant, now, nextId, precios, cycles>>

(* The query specification: the table is any table the ingest can leave      *)
(* behind (rows with distinct ids in any order of capture, none captured     *)
(* after the current time), and one request is answered.  Clock values one   *)
(* day apart give the same answers on tables shifted by a day, so the last   *)
(* DayLen clock values stand for all.                                        *)
Tables(at) ==
    UNION {
        {{Row(i, f[i][1], f[i][2]) : i \in 1..n} :
            f \in [1..n -> Symbols \X (0..at)]} :
        n \in 0..MaxRows}

InitQ ==
    /\ variant \in Variants
    /\ now \in (QueryNow - DayLen + 1)..QueryNow
    /\ precios \in Tables(now)
    /\ nextId = Cardinality(precios) + 1
    /\ cycles = [c \in Cycles |-> IdleCycle]
    /\ resp = NoResp
    /\ instagram = NoInstagram
    /\ dashboard = NoDashboard

NextQ ==
    \/ GetActual
    \/ GetActualFail
    \/ GetHistorial
    \/ GetHistorialFail

SpecQ == InitQ /\ [][NextQ]_vars

-----------------------------------------------------------------------------
(* Properties *)

Cutoff(at) == at - cleanup_days * DayLen

(* the step is the successful COMMIT of cycle c *)
Commits(c) ==
    cycles[c].pc = "commit" /\ cycles'[c].pc \in {"saved", "notify"}

InFlight(c) == cycles[c].pc \notin Returned

(* C1: when the upstream download fails, the call returns at once: it opens  *)
(* no connection and the rows of precios are the same after as before, for   *)
(* timer-driven and forced calls alike.                                      *)
C1_FetchFailureLeavesTable ==
    [][\A c \in Cycles :
          (cycles'[c].pc = "fetch-failed" /\ cycles'[c] # cycles[c])
          => /\ precios' = precios
             /\ nextId' = nextId
             /\ ~InFlight(c)]_vars

C1_Witness ==
    \E c \in Cycles :
        /\ cycles[c].pc = "fetch-failed"
        /\ \E r \in precios : r.fecha_registro <= Cutoff(now)

(* C2: a cycle whose download returned zero instruments writes nothing: the  *)
(* rows of precios are the same after its COMMIT as before.                  *)
C2_EmptyUpstreamWritesNothing ==
    [][\A c \in Cycles :
          (Commits(c) /\ cycles[c].pending = {}) => precios' = precios]_vars

(* C3: when a statement of the transaction fails (BEGIN, the k-th insert,    *)
(* the DELETE, COMMIT), the failure and the catch block that follows leave   *)
(* the committed table as it was: none of the rows inserted so far is in it  *)
(* and no row was pruned from it.                                            *)
C3_FailedTransactionLeavesTable ==
    [][\A c \in Cycles :
          (/\ cycles'[c].pc # cycles[c].pc
           /\ cycles'[c].pc \in {"catch", "write-failed", "rejected"})
          => /\ precios' = precios
             /\ cycles[c].pending \cap precios' = {}]_vars

C3_Witness ==
    /\ \E c \in Cycles : cycles[c].pc = "write-failed"
    /\ \A c \in Cycles : cycles[c].pc \in {"idle", "write-failed"}
    /\ now = 0
    /\ nextId > 2
    /\ precios = {}

(* C4: after every successful COMMIT of a cycle no row of the table is      *)
(* older than the cycle's NOW() minus cleanup_days days.                     *)
C4_NoOldRowAfterCommit ==
    [][\A c \in Cycles :
          Commits(c)
          => \A r \in precios' : r.fecha_registro >= Cutoff(cycles[c].txnNow)]_vars

-----------------------------------------------------------------------------
(* Properties of the read endpoints *)

Answered(endpoint) == resp.ep = endpoint /\ ~resp.rejected

SymbolsOf(tbl) == {r.symbol : r \in tbl}
RowsOf(tbl, symbol) == {r \in tbl : r.symbol = symbol}
IsLatestOf(tbl, r) ==
    r \in tbl /\ \A q \in RowsOf(tbl, r.symbol) : q.fecha_registro <= r.fecha_registro

(* one row for each symbol of the table, no other row, each the symbol's latest *)
LatestPerSymbol(tbl, rows) ==
    /\ \A i \in 1..Len(rows) : IsLatestOf(tbl, rows[i])
    /\ \A s \in SymbolsOf(tbl) :
          Cardinality({i \in 1..Len(rows) : rows[i].symbol = s}) = 1
    /\ \A i \in 1..Len(rows) : rows[i].symbol \in SymbolsOf(tbl)

(* C5: part_005's getLatestMarketData returns exactly one row for each       *)
(* symbol present in precios and no other row, and that row's                *)
(* fecha_registro is the greatest among the symbol's rows.                   *)
C5_LatestOnePerSymbol ==
    (Answered("actual") /\ variant = "ws") => LatestPerSymbol(precios, resp.rows)

C5_Witness ==
    /\ Answered("actual") /\ variant = "ws"
    /\ Len(resp.rows) = 2
    /\ resp.rows[1].fecha_registro # resp.rows[2].fecha_registro

(* C6: server.js's /api/bolsa/actual returns, for every symbol present in    *)
(* storage, the single most recent row of that symbol.                       *)
C6_ActualOnePerSymbol ==
    (Answered("actual") /\ variant = "server") => LatestPerSymbol(precios, resp.rows)

(* the number of entries of a historial answer that carry timestamp f *)
Count(rows, f) == Cardinality({i \in 1..Len(rows) : rows[i].fecha_registro = f})

(* the answer holds each row of S once and nothing else, oldest first *)
EachOnceAscending(rows, S) ==
    /\ \A f \in 0..QueryNow : Count(rows, f) = Cardinality({r \in S : r.fecha_registro = f})
    /\ \A i \in 1..Len(rows) : rows[i].fecha_registro \in 0..QueryNow
    /\ \A i, j \in 1..Len(rows) :
          i < j => rows[i].fecha_registro <= rows[j].fecha_registro

(* the rows of a symbol captured in [at - n days, at] *)
Captured(tbl, symbol, n, at) ==
    {r \in RowsOf(tbl, symbol) :
        r.fecha_registro >= at - n * DayLen /\ r.fecha_registro <= at}

(* C7: for days = 1 the historial endpoint returns exactly the rows of the   *)
(* requested symbol captured in [now - 1 day, now], each once, no row of     *)
(* another symbol, ascending by fecha_registro whatever the insertion order. *)
C7_IntradayComplete ==
    (Answered("historial") /\ resp.days = <<"1">>)
    => EachOnceAscending(resp.rows, Captured(precios, resp.symbol, 1, now))

C7_Witness ==
    /\ Answered("historial") /\ resp.days = <<"1">>
    /\ Len(resp.rows) = 2
    /\ \E r1, r2 \in Captured(precios, resp.symbol, 1, now) :
          r1.id < r2.id /\ r1.fecha_registro > r2.fecha_registro

(* at most one entry per calendar day, each the day's latest captured row,   *)
(* one for every day that has a row in the window, ascending by day          *)
LatestPerDay(rows, S) ==
    /\ \A i \in 1..Len(rows) :
          \E r \in S :
              /\ r.fecha_registro = rows[i].fecha_registro
              /\ \A q \in S : DateOf(q.fecha_registro) = DateOf(r.fecha_registro)
                              => q.fecha_registro <= r.fecha_registro
    /\ \A r \in S :
          \E i \in 1..Len(rows) :
              DateOf(rows[i].fecha_registro) = DateOf(r.fecha_registro)
    /\ \A i, j \in 1..Len(rows) :
          i < j => DateOf(rows[i].fecha_registro) < DateOf(rows[j].fecha_registro)

(* C8: in server.js and part_003, for days = N > 1 the historial endpoint    *)
(* returns one row for every calendar day on which the symbol has a row in   *)
(* [now - N days, now], namely the day's row of greatest fecha_registro, at  *)
(* most one row per day, ascending by day.                                   *)
C8_DailyClose ==
    (Answered("historial") /\ variant = "server" /\ daysLimitOf(resp.days) > 1)
    => LatestPerDay(resp.rows,
                    Captured(precios, resp.symbol, daysLimitOf(resp.days), now))

C8_Witness ==
    /\ Answered("historial") /\ variant = "server" /\ daysLimitOf(resp.days) > 1
    /\ Len(resp.rows) = 1
    /\ \E r1, r2 \in Captured(precios, resp.symbol, daysLimitOf(resp.days), now) :
          /\ r1.fecha_registro < r2.fecha_registro
          /\ DateOf(r1.fecha_registro) = DateOf(r2.fecha_registro)

(* C9 as claimed: in part_005, for days > 1 the historial endpoint returns   *)
(* at most one row per calendar day of the window, the day's latest.         *)
C9_WsDailyClose ==
    (Answered("historial") /\ variant = "ws" /\ daysLimitOf(resp.days) > 1)
    => LatestPerDay(resp.rows,
                    Captured(precios, resp.symbol, daysLimitOf(resp.days), now))

(* C9 as amended: in part_005, for days = N > 1 the historial endpoint       *)
(* returns every row of the symbol captured in [now - N days, now], each     *)
(* once, ascending by fecha_registro, with no down-sampling.                 *)
C9_WsEveryRow ==
    (Answered("historial") /\ variant = "ws" /\ daysLimitOf(resp.days) > 1)
    => EachOnceAscending(resp.rows,
                         Captured(precios, resp.symbol, daysLimitOf(resp.days), now))

C9_Witness ==
    /\ Answered("historial") /\ variant = "ws" /\ daysLimitOf(resp.days) > 1
    /\ Len(resp.rows) = 2
    /\ DateOf(resp.rows[1].fecha_registro) = DateOf(resp.rows[2].fecha_registro)
    /\ resp.rows[1].fecha_registro < resp.rows[2].fecha_registro

(* C10: for every days value, a symbol with no row in storage, or whose rows *)
(* all predate the requested window, is answered with status 200 and an      *)
(* empty array whenever the query itself succeeds: no error status and no    *)
(* carried-forward row.                                                      *)
C10_EmptyWindowEmptyAnswer ==
    (/\ Answered("historial")
     /\ Captured(precios, resp.symbol, daysLimitOf(resp.days), now) = {})
    => resp.status = 200 /\ resp.rows = << >>

C10_Witness ==
    /\ Answered("historial")
    /\ RowsOf(precios, resp.symbol) # {}
    /\ daysLimitOf(resp.days) > 1
    /\ Captured(precios, resp.symbol, daysLimitOf(resp.days), now) = {}
    /\ resp.status = 200 /\ resp.rows = << >>

(* the symbol of the answer has exactly one row in storage *)
SingleRow == Cardinality(RowsOf(precios, resp.symbol)) = 1

(* C11 as claimed: a symbol with exactly one row in storage gets that row    *)
(* back from the historial endpoint for every days >= 1, whatever the age    *)
(* of the row.                                                               *)
C11_SingleRowAlwaysReturned ==
    (Answered("historial") /\ daysLimitOf(resp.days) >= 1 /\ SingleRow)
    => /\ Len(resp.rows) = 1
       /\ \E r \in RowsOf(precios, resp.symbol) :
             resp.rows[1].fecha_registro = r.fecha_registro

(* C11 as amended: a symbol with exactly one row in storage gets that row    *)
(* back for days = N >= 1 when the row's fecha_registro is in                *)
(* [now - N days, now], and an empty array when the row is older.            *)
C11_SingleRowIfInWindow ==
    (Answered("historial") /\ daysLimitOf(resp.days) >= 1 /\ SingleRow)
    => LET S == Captured(precios, resp.symbol, daysLimitOf(resp.days), now)
       IN  IF S = {}
           THEN resp.rows = << >>
           ELSE /\ Len(resp.rows) = 1
                /\ \E r \in S : resp.rows[1].fecha_registro = r.fecha_registro

C11_Witness ==
    /\ Answered("historial") /\ daysLimitOf(resp.days) > 1 /\ SingleRow
    /\ Len(resp.rows) = 1
    /\ resp.rows[1].fecha_registro < now - DayLen

(* the days parameter is none of the integers 1, 2, ...: text without a      *)
(* leading number, zero, or a negative integer                               *)
NotPositive(days) == parseInt(days).nan \/ parseInt(days).val < 1

(* C12: for a days parameter that is not an integer >= 1 (non-numeric text,  *)
(* 0, a negative integer) the historial endpoint returns what the request    *)
(* with days = 1 returns on the same table.                                  *)
C12_InvalidDaysAsOne ==
    (Answered("historial") /\ NotPositive(resp.days))
    => resp.rows \in historialRows(precios, resp.symbol, <<"1">>, now)

-----------------------------------------------------------------------------
(* The market-hours gate with the clock reading in view: each call of        *)
(* fetchAndStore reads the Caracas day, hour and minute and either returns   *)
(* or goes on to the download.  resp carries what the call read and did.     *)

GateReading(c, day, hour, minute, fetches) ==
    [ep |-> "fetchAndStore", trigger |-> c, day |-> day, hour |-> hour,
     minute |-> minute, fetches |-> fetches]

(* if (!force) { ...; if (closed) { log "Mercado cerrado"; return } } *)
GateSkip(c) ==
    /\ cycles[c].pc \in Returned
    /\ \E day \in WeekDays, hour \in Hours, minute \in Minutes :
          /\ ~force(c) /\ gateClosed(day, hour, minute)
          /\ resp' = GateReading(c, day, hour, minute, FALSE)
    /\ Return(c, "skipped")
    /\ UNCHANGED <<instagram, dashboard, variant, now, nextId, precios>>

(* the call is forced or the market is open: axios.get is issued, and the    *)
(* call either ends on a download error or opens its transaction             *)
GatePass(c) ==
    /\ cycles[c].pc \in Returned
    /\ \E day \in WeekDays, hour \in Hours, minute \in Minutes :
          /\ force(c) \/ ~gateClosed(day, hour, minute)
          /\ resp' = GateReading(c, day, hour, minute, TRUE)
    /\ \/ Return(c, "fetch-failed")
       \/ \E data \in Upstream :
             SetCycle(c, [IdleCycle EXCEPT !.pc = "txn", !.todo = data, !.txnNow = now,
                                    !.client = TRUE])
    /\ UNCHANGED <<instagram, dashboard, variant, now, nextId, precios>>

NextGate ==
    \E c \in Cycles :
        \/ GateSkip(c)
        \/ GatePass(c)

SpecGate == Init /\ [][NextGate]_vars

(* C13: in server.js a non-forced call goes on to the download (and so to a  *)
(* write) exactly when the Caracas day is Monday..Friday and the hour h has  *)
(* 9 <= h < 13, and otherwise returns as skipped with the table untouched;   *)
(* a forced call always goes on to the download; the timer's call is not     *)
(* forced.                                                                   *)
C13_MarketHoursGate ==
    (resp.ep = "fetchAndStore" /\ variant = "server")
    => /\ resp.fetches <=> \/ resp.trigger = "manual"
                           \/ /\ resp.day \in 1..5
                              /\ 9 <= resp.hour /\ resp.hour < 13
       /\ ~resp.fetches => cycles[resp.trigger].pc = "skipped" /\ precios = {}
       /\ resp.trigger = "timer" => ~force(resp.trigger)

C13_Witness ==
    /\ resp.ep = "fetchAndStore" /\ variant = "server"
    /\ resp.trigger = "timer" /\ resp.day = 5 /\ resp.hour = 13 /\ resp.minute = 0
    /\ ~resp.fetches

-----------------------------------------------------------------------------
(* Properties of the ingest, continued *)

(* C14: a read runs its one SELECT against the committed table precios, and  *)
(* the committed table never holds part of a cycle: no row of an open        *)
(* transaction is in it, a transaction that reaches COMMIT has inserted one  *)
(* row for each of its N instruments, and the table changes only by the      *)
(* COMMIT of a cycle, which applies all of that cycle's inserts and all of   *)
(* its prune deletions in one step.                                          *)
C14_ReadersSeeWholeCycles ==
    [][/\ \A c \in Cycles : cycles[c].pending \cap precios = {}
       /\ \A c \in Cycles :
             (cycles[c].pc = "txn" /\ cycles'[c].pc = "commit")
             => Cardinality(cycles'[c].pending) = Len(cycles[c].todo)
       /\ precios' # precios
          => \E c \in Cycles :
                /\ Commits(c)
                /\ precios' = (precios \cup cycles[c].pending) \ cycles[c].deleted
                /\ cycles[c].pending \subseteq precios'
                /\ cycles[c].deleted \cap precios' = {}]_vars

C14_Witness ==
    \E c \in Cycles :
        /\ cycles[c].pc = "commit"
        /\ Cardinality(cycles[c].pending) = 2
        /\ cycles[c].pending \cap precios = {}

(* C15: the promise returned by fetchAndStore never rejects, whatever fails  *)
(* (download, pool.connect, BEGIN, an insert, the DELETE, COMMIT, the        *)
(* ROLLBACK of the error handler): no call ends with an error thrown to the  *)
(* timer or to the /api/fetch-data handler.                                  *)
C15_NeverRejects ==
    \A c \in Cycles : cycles[c].pc # "rejected"

(* C16: a stored row keeps all its field values for as long as it is stored, *)
(* and a row leaves the table only through the retention prune of a          *)
(* committing cycle.                                                         *)
C16_RowsImmutableUntilPruned ==
    [][\A r \in precios :
          \/ r \in precios'
          \/ /\ \A q \in precios' : q.id # r.id
             /\ \E c \in Cycles :
                   /\ Commits(c)
                   /\ r \in cycles[c].deleted
                   /\ r.fecha_registro <= Cutoff(cycles[c].txnNow)]_vars

C16_Witness ==
    /\ \E r1, r2 \in precios :
          r1.symbol = r2.symbol /\ r1.fecha_registro < r2.fecha_registro
    /\ \A c \in Cycles : cycles[c].pc \in Returned

(* C17: in part_005, whenever fetchAndStore enters its catch block (ROLLBACK *)
(* and the save error are next), its transaction has not committed: control  *)
(* never reaches the catch block from the code that follows COMMIT.          *)
C17_CatchMeansNotCommitted ==
    [][\A c \in Cycles :
          (variant = "ws" /\ cycles'[c].pc = "catch" /\ cycles[c].pc # "catch")
          => cycles[c].pc # "notify"]_vars

(* C18 as claimed: every row with fecha_registro >= NOW() - cleanup_days     *)
(* days, a row exactly at the cutoff and the cycle's own rows included, is   *)
(* still in the table after the cycle commits.                               *)
C18_KeepsRowsFromCutoff ==
    [][\A c \in Cycles :
          Commits(c)
          => \A r \in precios \cup cycles[c].pending :
                r.fecha_registro >= Cutoff(cycles[c].txnNow) => r \in precios']_vars

(* C18 as amended: every row with fecha_registro > NOW() - cleanup_days      *)
(* days, the cycle's own rows included, is still in the table after the      *)
(* cycle commits; a row exactly at the cutoff is deleted.                    *)
C18_KeepsRowsAfterCutoff ==
    [][\A c \in Cycles :
          Commits(c)
          => /\ \A r \in precios \cup cycles[c].pending :
                   r.fecha_registro > Cutoff(cycles[c].txnNow) => r \in precios'
             /\ \A r \in cycles[c].deleted :
                   r.fecha_registro <= Cutoff(cycles[c].txnNow)]_vars

C18_Witness ==
    \E c \in Cycles :
        /\ cycles[c].pc = "commit"
        /\ cycles[c].pending # {}
        /\ \E r \in cycles[c].deleted :
              r \in precios /\ r.fecha_registro = Cutoff(cycles[c].txnNow)

(* C19: getLatestMarketData is deterministic under ties: every result the    *)
(* query can produce on the table holds the same rows as the one answered.   *)
C19_TieBreakDeterministic ==
    (Answered("actual") /\ variant = "ws")
    => \A other \in getLatestMarketData(precios) : Range(other) = Range(resp.rows)

(* C20: for any two stored rows of one symbol, the row of smaller id has the *)
(* earlier or equal fecha_registro.                                          *)
C20_FechaMonotoneInId ==
    \A r1, r2 \in precios :
        (r1.symbol = r2.symbol /\ r1.id < r2.id)
        => r1.fecha_registro <= r2.fecha_registro

-----------------------------------------------------------------------------
(* Properties of the gate of part_005 *)

-----------------------------------------------------------------------------
(* Properties of the notification and of the pool *)

(* the step sends a broadcast *)
Broadcasts == resp'.ep = "broadcast" /\ resp' # resp

(* a broadcast is sent by the step of a call that follows its COMMIT, the    *)
(* call then returns saved, and the payload is a latest-per-symbol snapshot  *)
(* of the table as committed at that moment                                  *)
BroadcastAfterCommit ==
    Broadcasts
    => /\ cycles[resp'.trigger].pc = "notify"
       /\ cycles'[resp'.trigger].pc = "saved"
       /\ resp'.rows \in getLatestMarketData(precios)
       /\ LatestPerSymbol(precios, resp'.rows)

(* a call that returns skipped, fetch-failed, write-failed or with a thrown  *)
(* error sends nothing                                                       *)
SilentUnlessSaved ==
    \A c \in Cycles :
        (/\ cycles'[c].pc # cycles[c].pc
         /\ cycles'[c].pc \in {"skipped", "fetch-failed", "write-failed", "rejected", "catch"})
        => resp' = NoResp

C26_ClientReleasedOnReturn ==
    [][/\ \A c \in Cycles : cycles[c].client <=> InFlight(c)
       /\ \A c \in Cycles :
             (cycles[c].client /\ ~cycles'[c].client) => cycles'[c].pc \in Returned
       /\ \A c \in Cycles :
             (~cycles[c].client /\ cycles'[c].pc = "write-failed"
              /\ cycles'[c] # cycles[c])
             => precios' = precios /\ ~cycles'[c].client]_vars

C26_Witness ==
    /\ \E c \in Cycles : cycles[c].pc = "rejected"
    /\ \E c \in Cycles : cycles[c].pc = "saved"
    /\ \A c \in Cycles : ~cycles[c].client

(* C23: fetchAndStore calls are not mutually exclusive: while one call is    *)
(* between its download and its COMMIT the other trigger can start a call of *)
(* its own (nothing queues or drops it), a transaction waiting to commit can *)
(* commit whatever the other call is doing, and a COMMIT that follows the    *)
(* other call's COMMIT adds all its rows to the table, duplicates of the     *)
(* other call's rows included.                                               *)
C23_NoMutualExclusion ==
    [][/\ \A c \in Cycles :
             InFlight(c)
             => \A d \in Cycles \ {c} :
                   /\ cycles[d].pc \in Returned => ENABLED Begin(d)
                   /\ cycles[d].pc = "commit" => ENABLED Commit(d)
       /\ \A c \in Cycles :
             (Commits(c) /\ cycles[c].overlapped) => cycles[c].pending \subseteq precios']_vars

C23_Witness ==
    \E r1, r2 \in precios :
        /\ r1.id # r2.id
        /\ r1.symbol = r2.symbol
        /\ r1.fecha_registro = r2.fecha_registro
        /\ \A c \in Cycles : cycles[c].pc = "saved"
        /\ variant = "server"

-----------------------------------------------------------------------------
(* The Top-5 post of part_003: publishToInstagram                            *)

MaxStocks == 6      \* rows of the latest snapshot the Top-5 post is made from

(* a number in hundredths; texts carry at most two decimals *)
RECURSIVE DropDigits(_)
DropDigits(s) ==
    IF s # << >> /\ IsDigit(Head(s)) THEN DropDigits(Tail(s)) ELSE s

FracHundredths(s) ==
    LET d1 == IF s # << >> /\ IsDigit(s[1]) THEN DigitVal(s[1]) ELSE 0
        d2 == IF Len(s) >= 2 /\ IsDigit(s[1]) /\ IsDigit(s[2]) THEN DigitVal(s[2]) ELSE 0
    IN  10 * d1 + d2

(* parseFloat: an optional sign, digits, an optional point and digits; it   *)
(* stops at the first other character (a comma included) and gives NaN when *)
(* no digit was read.  -0 is 0: both satisfy >= 0.                          *)
parseFloat(s) ==
    LET signed == s # << >> /\ Head(s) \in {"-", "+"}
        body == IF signed THEN Tail(s) ELSE s
        whole == LeadingDigits(body, 0, FALSE)
        rest == DropDigits(body)
        frac == /\ Len(rest) >= 2
                /\ rest[1] = "."
                /\ IsDigit(rest[2])
        mag == (IF whole.nan THEN 0 ELSE 100 * whole.val)
               + (IF frac THEN FracHundredths(Tail(rest)) ELSE 0)
    IN  IF whole.nan /\ ~frac THEN NaN
        ELSE [nan |-> FALSE,
              val |-> IF signed /\ Head(s) = "-" THEN 0 - mag ELSE mag]

(* str.replace(/\./g, ''): every point removed *)
RECURSIVE StripPoints(_)
StripPoints(s) ==
    IF s = << >> THEN << >>
    ELSE IF Head(s) = "." THEN StripPoints(Tail(s))
    ELSE <<Head(s)>> \o StripPoints(Tail(s))

(* str.replace(',', '.'): the first comma becomes a point *)
RECURSIVE CommaToPoint(_)
CommaToPoint(s) ==
    IF s = << >> THEN << >>
    ELSE IF Head(s) = "," THEN <<".">> \o Tail(s)
    ELSE <<Head(s)>> \o CommaToPoint(Tail(s))

(* parseVE: 0 for an empty text, else parseFloat(clean) || 0 *)
parseVE(str) ==
    IF str = << >> THEN 0
    ELSE LET n == parseFloat(CommaToPoint(StripPoints(str)))
         IN  IF n.nan THEN 0 ELSE n.val

(* parseFloat(stock.var_abs) >= 0, on the text as stored; NaN >= 0 is false *)
isUp(stock) ==
    LET n == parseFloat(stock.var_abs)
    IN  ~n.nan /\ n.val >= 0

(* Array.prototype.sort with (a, b) => parseVE(b.volumen) - parseVE(a.volumen): *)
(* descending and stable, so the place of row i is one more than the number  *)
(* of rows with a larger volumen or with the same volumen and standing       *)
(* before it                                                                 *)
PlaceByVolumen(vol) ==
    [i \in DOMAIN vol |->
        1 + Cardinality({j \in DOMAIN vol :
                            vol[j] > vol[i] \/ (vol[j] = vol[i] /\ j < i)})]

Arrange(seq, place) ==
    [p \in 1..Len(seq) |-> seq[CHOOSE i \in 1..Len(seq) : place[i] = p]]

VolumenOf(seq) == [j \in 1..Len(seq) |-> parseVE(seq[j].volumen)]

(* the volumes are parsed once, then the rows are put in their places *)
SortByVolumen(seq) ==
    LET sortings == {Arrange(seq, PlaceByVolumen(vol)) : vol \in {VolumenOf(seq)}}
    IN  CHOOSE sorted \in sortings : TRUE

(* .slice(0, 5) *)
topVolumen(marketData) ==
    LET sorted == SortByVolumen(marketData)
    IN  SubSeq(sorted, 1, IF Len(sorted) < 5 THEN Len(sorted) ELSE 5)

(* the texts the upstream writes: decimal comma, points for thousands, and  *)
(* one quote written with a decimal point                                    *)
Quotes ==
    { [volumen |-> <<"1", ".", "0", "0", "0", ",", "0", "0">>,
       var_abs |-> <<"-", "0", ",", "5", "0">>],
      [volumen |-> <<"9", "9", "9", ",", "0", "0">>,
       var_abs |-> <<"0", ",", "5", "0">>],
      [volumen |-> <<"2", ",", "5", "0">>,
       var_abs |-> <<"-", "1", ",", "5", "0">>],
      [volumen |-> <<"1", ".", "0", "0", "0", ",", "0", "0">>,
       var_abs |-> <<"-", "0", ".", "5", "0">>] }

(* the rows of the latest snapshot, symbol i in position i of the result *)
Snapshots(n) ==
    UNION { { [i \in 1..k |-> [symbol |-> i, volumen |-> q[i].volumen,
                               var_abs |-> q[i].var_abs]] :
                q \in [1..k -> Quotes] } : k \in 0..n }

(* the photo of the post: the five rows with their arrows *)
Top5Page(marketData) ==
    LET top == topVolumen(marketData)
    IN  [stocks |-> [i \in 1..Len(top) |-> [stock |-> top[i], up |-> isUp(top[i])]],
         current |-> 1, total |-> 1]

(* publishToInstagram leaves with an error: not logged in, or no rows *)
publishToInstagramThrows ==
    /\ instagram.job = "idle"
    /\ ~instagram.igLoggedIn \/ instagram.marketData = << >>
    /\ instagram' = [instagram EXCEPT !.job = "failed", !.calls = <<"throw">>]
    /\ UNCHANGED <<dashboard, variant, now, nextId, precios, cycles, resp>>

(* publishToInstagram builds the caption and the picture and publishes them *)
publishToInstagram ==
    /\ instagram.job = "idle"
    /\ instagram.igLoggedIn
    /\ instagram.marketData # << >>
    /\ instagram' = [instagram EXCEPT
                        !.job = "posted",
                        !.calls = <<"photo">>,
                        !.post = [kind |-> "photo", by |-> "publishToInstagram",
                                  pages |-> <<Top5Page(instagram.marketData)>>]]
    /\ UNCHANGED <<dashboard, variant, now, nextId, precios, cycles, resp>>

InitTop5 ==
    /\ variant = "server"
    /\ now = 0
    /\ nextId = 1
    /\ precios = {}
    /\ cycles = [c \in Cycles |-> IdleCycle]
    /\ resp = NoResp
    /\ dashboard = NoDashboard
    /\ \E b \in BOOLEAN, m \in Snapshots(MaxStocks) :
          instagram = [NoInstagram EXCEPT !.igLoggedIn = b, !.marketData = m]

NextTop5 ==
    \/ publishToInstagramThrows
    \/ publishToInstagram

SpecTop5 == InitTop5 /\ [][NextTop5]_vars

(* C24: in the Top-5 post of part_003 a stock is shown as down exactly when  *)
(* its var_abs, normalized (thousands points stripped, decimal comma turned  *)
(* into a point), denotes a negative number, and the post holds the five     *)
(* rows of largest numeric volumen in descending order.                      *)
C24_DownIffNegative ==
    instagram.post.kind = "photo"
    => LET shown == instagram.post.pages[1].stocks
       IN  /\ \A i \in 1..Len(shown) :
                 shown[i].up <=> parseVE(shown[i].stock.var_abs) >= 0
           /\ \A i, j \in 1..Len(shown) :
                 i < j => parseVE(shown[i].stock.volumen) >= parseVE(shown[j].stock.volumen)

-----------------------------------------------------------------------------
(* The SQLite revision (part_002): fetchAndStore without gate and without    *)
(* transaction.  Each stmt.run is a statement of its own, committed when it  *)
(* has run, and stamps its row with the CURRENT_TIMESTAMP of that moment;    *)
(* the DELETE is queued after the inserts.  The only caller is the timer     *)
(* (and the call at start-up).  todo holds the statements still queued,      *)
(* inserted the rows of the batch that have been written.                    *)

LiteReturned == {"idle", "saved", "fetch-failed", "stopped"}

(* fetchAndStore is called, by setInterval or as the process starts, and the *)
(* download succeeds: one stmt.run per instrument is queued                  *)
LiteFetch ==
    /\ cycles["timer"].pc \in LiteReturned
    /\ \E data \in Upstream :
          SetCycle("timer", [IdleCycle EXCEPT !.pc = "run", !.todo = data])
    /\ NoOutput
    /\ UNCHANGED <<instagram, dashboard, variant, now, nextId, precios>>

(* axios.get rejects: the catch block logs it *)
LiteFetchFail ==
    /\ cycles["timer"].pc \in LiteReturned
    /\ Return("timer", "fetch-failed")
    /\ NoOutput
    /\ UNCHANGED <<instagram, dashboard, variant, now, nextId, precios>>

(* the next queued stmt.run executes and its row is in the table *)
LiteRun ==
    /\ cycles["timer"].pc = "run"
    /\ cycles["timer"].todo # << >>
    /\ nextId <= MaxId + MaxRows
    /\ LET row == Row(nextId, Head(cycles["timer"].todo), now)
       IN  /\ precios' = precios \cup {row}
           /\ SetCycle("timer", [cycles["timer"] EXCEPT
                                    !.todo = Tail(@),
                                    !.inserted = @ \cup {row}])
    /\ nextId' = nextId + 1
    /\ NoOutput
    /\ UNCHANGED <<instagram, dashboard, variant, now>>

(* the next stmt.run fails (no callback and no 'error' listener: the error   *)
(* ends the process) or the process is stopped before it ran; what was       *)
(* written stays written                                                     *)
LiteStop ==
    /\ cycles["timer"].pc = "run"
    /\ cycles["timer"].todo # << >>
    /\ SetCycle("timer", [cycles["timer"] EXCEPT !.pc = "stopped"])
    /\ NoOutput
    /\ UNCHANGED <<instagram, dashboard, variant, now, nextId, precios>>

(* DELETE FROM precios WHERE fecha_registro <= date('now','-30 days'): a row *)
(* goes when its day is before that date (a timestamp of the date itself     *)
(* sorts after the bare date)                                                *)
LitePrune(tbl, at) ==
    {r \in tbl : DateOf(r.fecha_registro) < DateOf(at) - cleanup_days}

LiteDelete ==
    /\ cycles["timer"].pc = "run"
    /\ cycles["timer"].todo = << >>
    /\ precios' = precios \ LitePrune(precios, now)
    /\ SetCycle("timer", [cycles["timer"] EXCEPT !.pc = "saved"])
    /\ NoOutput
    /\ UNCHANGED <<instagram, dashboard, variant, now, nextId>>

(* GET /api/bolsa/actual: the rows of the newest timestamp *)
LiteActual ==
    /\ \E rows \in actualQuery(precios) :
          resp' = Response("actual", "", << >>, FALSE, rows)
    /\ UNCHANGED <<instagram, dashboard, variant, now, nextId, precios, cycles>>

(* fecha_registro >= date('now', '-N days'), ORDER BY fecha_registro ASC *)
LiteWindow(tbl, symbol, n, at) ==
    {r \in tbl : r.symbol = symbol /\ DateOf(r.fecha_registro) >= DateOf(at) - n}

(* GET /api/bolsa/historial/:symbol/:days *)
LiteHistorial ==
    /\ \E symbol \in Symbols, days \in {<<"1">>, <<"x">>} :
          \E f \in OrderBy(LiteWindow(precios, symbol, daysLimitOf(days), now),
                           FechaAsc(precios)) :
              resp' = Response("historial", symbol, days, FALSE, Project(f))
    /\ UNCHANGED <<instagram, dashboard, variant, now, nextId, precios, cycles>>

LiteTick ==
    /\ now < MaxTime
    /\ now' = now + 1
    /\ NoOutput
    /\ UNCHANGED <<instagram, dashboard, variant, nextId, precios, cycles>>

InitLite ==
    /\ variant = "sqlite"
    /\ now = 0
    /\ nextId = 1
    /\ precios = {}
    /\ cycles = [c \in Cycles |-> IdleCycle]
    /\ resp = NoResp
    /\ instagram = NoInstagram
    /\ dashboard = NoDashboard

NextLite ==
    \/ LiteFetch
    \/ LiteFetchFail
    \/ LiteRun
    \/ LiteStop
    \/ LiteDelete
    \/ LiteActual
    \/ LiteHistorial
    \/ LiteTick

SpecLite == InitLite /\ [][NextLite]_vars

(* C25: in the SQLite revision a cycle is all-or-nothing: when the call has  *)
(* ended or the process has stopped the table holds all the rows of the      *)
(* batch or none of them, and a /actual response never holds some rows of    *)
(* the batch without the others.                                             *)
C25_BatchAllOrNothing ==
    LET batch == cycles["timer"]
        seen == {r \in batch.inserted :
                    \E i \in 1..Len(resp.rows) : resp.rows[i] = r}
    IN  /\ batch.pc \in {"stopped", "saved"}
           => batch.inserted = {} \/ batch.todo = << >>
        /\ resp.ep = "actual"
           => seen = {} \/ (seen = batch.inserted /\ batch.todo = << >>)

-----------------------------------------------------------------------------
(* The dashboard page (index.js).  marketData and lastUpdateTimestamp are    *)
(* the script's globals; repaints counts the runs of processNewData;         *)
(* delivered is the payload the last handler received and http the outcome   *)
(* of the one fetchData call made as the page starts; sockets are the        *)
(* WebSocket objects that have not closed, timers the pending setTimeout     *)
(* calls; serverUp tells whether the server can be reached.                  *)

MaxStamp == 2       \* fecha_registro values of the snapshots the server sends
MaxPayload == 2     \* rows of a snapshot
MaxRepaints == 3    \* runs of processNewData followed

(* the JSON arrays the server answers and pushes *)
Payloads ==
    UNION { [1..k -> [symbol : {"A"}, fecha_registro : 1..MaxStamp]] : k \in 0..MaxPayload }

(* processNewData(newData): lines 20-40 *)
processNewData(page, newData) ==
    [page EXCEPT !.marketData = newData,
                 !.lastUpdateTimestamp = newData[1].fecha_registro,
                 !.repaints = @ + 1]

(* fetchData gets no usable answer: response.ok is false, or fetch rejects *)
fetchDataFails ==
    /\ dashboard.http.state = "pending"
    /\ dashboard' = [dashboard EXCEPT !.http = [state |-> "failed", data |-> << >>]]
    /\ UNCHANGED <<instagram, variant, now, nextId, precios, cycles, resp>>

(* fetchData after response.json(): lines 52-64 *)
fetchData ==
    /\ dashboard.http.state = "pending"
    /\ dashboard.serverUp
    /\ dashboard.repaints < MaxRepaints
    /\ \E newData \in Payloads :
          LET got == [dashboard EXCEPT
                         !.http = [state |-> "done", data |-> newData],
                         !.delivered = [via |-> "http", data |-> newData]]
          IN  dashboard' =
                  IF newData = << >> THEN got
                  ELSE IF newData[1].fecha_registro = dashboard.lastUpdateTimestamp
                       THEN got
                       ELSE processNewData(got, newData)
    /\ UNCHANGED <<instagram, variant, now, nextId, precios, cycles, resp>>

(* ws.onmessage with every message repainted *)
onmessageAlways(i) ==
    /\ dashboard.sockets[i] = "open"
    /\ dashboard.repaints < MaxRepaints
    /\ \E newData \in Payloads :
          LET got == [dashboard EXCEPT !.delivered = [via |-> "ws", data |-> newData]]
          IN  dashboard' = IF newData # << >> THEN processNewData(got, newData) ELSE got
    /\ UNCHANGED <<instagram, variant, now, nextId, precios, cycles, resp>>

(* ws.onmessage: lines 374-380 *)
onmessage(i) ==
    /\ dashboard.sockets[i] = "open"
    /\ dashboard.repaints < MaxRepaints
    /\ \E newData \in Payloads :
          LET got == [dashboard EXCEPT !.delivered = [via |-> "ws", data |-> newData]]
          IN  dashboard' =
                  IF /\ newData # << >>
                     /\ newData[1].fecha_registro # dashboard.lastUpdateTimestamp
                  THEN processNewData(got, newData)
                  ELSE got
    /\ UNCHANGED <<instagram, variant, now, nextId, precios, cycles, resp>>

(* ws.onopen: the handshake of a socket completes *)
onopen(i) ==
    /\ dashboard.sockets[i] = "connecting"
    /\ dashboard.serverUp
    /\ dashboard' = [dashboard EXCEPT !.sockets[i] = "open"]
    /\ UNCHANGED <<instagram, variant, now, nextId, precios, cycles, resp>>

RemoveAt(seq, i) == SubSeq(seq, 1, i - 1) \o SubSeq(seq, i + 1, Len(seq))

(* setTimeout(connectWebSocket, 5000) *)
ReconnectTimer == [fn |-> "connectWebSocket", delay |-> 5000]

(* a close that is also reported to an error handler scheduling a reconnect *)
oncloseAndError(i) ==
    /\ dashboard.sockets[i] = "open"
       \/ (dashboard.sockets[i] = "connecting" /\ ~dashboard.serverUp)
    /\ dashboard' = [dashboard EXCEPT
                        !.sockets = RemoveAt(@, i),
                        !.timers = @ \o <<ReconnectTimer, ReconnectTimer>>]
    /\ UNCHANGED <<instagram, variant, now, nextId, precios, cycles, resp>>

(* ws.onclose: an open socket drops, or a handshake fails; lines 382-385 *)
onclose(i) ==
    /\ dashboard.sockets[i] = "open"
       \/ (dashboard.sockets[i] = "connecting" /\ ~dashboard.serverUp)
    /\ dashboard' = [dashboard EXCEPT
                        !.sockets = RemoveAt(@, i),
                        !.timers = Append(@, ReconnectTimer)]
    /\ UNCHANGED <<instagram, variant, now, nextId, precios, cycles, resp>>

(* the timer fires and connectWebSocket makes a new WebSocket: lines 365-368 *)
connectWebSocket ==
    /\ dashboard.timers # << >>
    /\ dashboard' = [dashboard EXCEPT
                        !.timers = Tail(@),
                        !.sockets = Append(@, "connecting")]
    /\ UNCHANGED <<instagram, variant, now, nextId, precios, cycles, resp>>

(* the server stops answering, and answers again *)
ServerDown ==
    /\ dashboard.serverUp
    /\ dashboard' = [dashboard EXCEPT !.serverUp = FALSE]
    /\ UNCHANGED <<instagram, variant, now, nextId, precios, cycles, resp>>

ServerUp ==
    /\ ~dashboard.serverUp
    /\ dashboard' = [dashboard EXCEPT !.serverUp = TRUE]
    /\ UNCHANGED <<instagram, variant, now, nextId, precios, cycles, resp>>

(* the page after its script ran to the end: fetchData() is awaiting its    *)
(* answer and connectWebSocket() has made the first socket (lines 388-392)  *)
InitDash ==
    /\ variant = "ws"
    /\ now = 0
    /\ nextId = 1
    /\ precios = {}
    /\ cycles = [c \in Cycles |-> IdleCycle]
    /\ resp = NoResp
    /\ instagram = NoInstagram
    /\ \E up \in BOOLEAN :
          dashboard = [NoDashboard EXCEPT
                          !.http = [state |-> "pending", data |-> << >>],
                          !.sockets = <<"connecting">>,
                          !.serverUp = up]

Socket ==
    \E i \in 1..Len(dashboard.sockets) :
        \/ onmessage(i)
        \/ onopen(i)
        \/ onclose(i)

NextDash ==
    \/ fetchDataFails
    \/ fetchData
    \/ Socket
    \/ connectWebSocket
    \/ ServerDown
    \/ ServerUp

SpecDash == InitDash /\ [][NextDash]_vars

(* timers fire, and a handshake with a server that answers completes *)
SpecDashFair ==
    /\ SpecDash
    /\ WF_vars(connectWebSocket)
    /\ WF_vars(\E i \in 1..Len(dashboard.sockets) : onopen(i))

(* C27: processNewData runs only for a payload that is not empty and whose   *)
(* first row's fecha_registro differs from lastUpdateTimestamp, and leaves   *)
(* lastUpdateTimestamp equal to marketData[0].fecha_registro; a payload      *)
(* whose first fecha_registro is the one already shown repaints nothing, and *)
(* marketData is never replaced by an empty payload.                         *)
C27_RepaintOnlyOnNewSnapshot ==
    [][/\ dashboard'.repaints # dashboard.repaints
          => /\ dashboard'.repaints = dashboard.repaints + 1
             /\ dashboard'.delivered.data # << >>
             /\ dashboard'.delivered.data[1].fecha_registro
                    # dashboard.lastUpdateTimestamp
             /\ dashboard'.marketData = dashboard'.delivered.data
             /\ dashboard'.lastUpdateTimestamp
                    = dashboard'.marketData[1].fecha_registro
       /\ dashboard'.repaints = dashboard.repaints
          => /\ dashboard'.marketData = dashboard.marketData
             /\ dashboard'.lastUpdateTimestamp = dashboard.lastUpdateTimestamp
       /\ (/\ dashboard'.delivered # dashboard.delivered
           /\ dashboard'.delivered.data # << >>
           /\ dashboard'.delivered.data[1].fecha_registro
                  = dashboard.lastUpdateTimestamp)
          => dashboard'.repaints = dashboard.repaints
       /\ dashboard'.marketData # dashboard.marketData
          => dashboard'.marketData # << >>]_vars

(* the initial load and a push both delivered the snapshot shown, and it was *)
(* painted once                                                              *)
C27_Witness ==
    /\ dashboard.repaints = 1
    /\ dashboard.http.state = "done"
    /\ dashboard.http.data = dashboard.marketData
    /\ dashboard.delivered = [via |-> "ws", data |-> dashboard.marketData]
    /\ dashboard.marketData # << >>

(* C28: every close of the WebSocket schedules exactly one reconnect, 5 s    *)
(* later; at any time there is at most one live socket or pending reconnect  *)
(* timer; and when the server can be reached the page gets an open socket    *)
(* (unless the server becomes unreachable first).                            *)
C28_OneSocketOrTimer ==
    /\ [](Len(dashboard.sockets) + Len(dashboard.timers) <= 1)
    /\ [][Len(dashboard'.sockets) < Len(dashboard.sockets)
          => /\ Len(dashboard'.sockets) = Len(dashboard.sockets) - 1
             /\ dashboard'.timers
                    = Append(dashboard.timers,
                             [fn |-> "connectWebSocket", delay |-> 5000])]_vars
    /\ dashboard.serverUp
          ~> (~dashboard.serverUp \/ \E i \in 1..Len(dashboard.sockets) :
                                          dashboard.sockets[i] = "open")

(* a socket that was open and received a push has closed, and its one       *)
(* reconnect is pending                                                      *)
C28_Witness ==
    /\ dashboard.sockets = << >>
    /\ dashboard.timers = <<[fn |-> "connectWebSocket", delay |-> 5000]>>
    /\ dashboard.delivered.via = "ws"
    /\ dashboard.serverUp

-----------------------------------------------------------------------------
(* The Instagram publisher of part_005: loginToInstagram, the scheduled job  *)
(* (Top-5 post, 30 s pause, full-market summary) and the two manual          *)
(* endpoints.  calls is the trace of the job's current run; post is the last *)
(* thing handed to ig.publish with success.  marketData stands for what      *)
(* getLatestMarketData returns: one row per symbol, symbols numbered in      *)
(* collation order, in the order the query gives them.                       *)

MaxListed == 11     \* symbols in the latest snapshot

chunkSize == 5

QuoteOf(sym) ==
    IF sym % 2 = 0
    THEN [volumen |-> <<"1", ".", "0", "0", "0", ",", "0", "0">>,
          var_abs |-> <<"-", "0", ",", "5", "0">>]
    ELSE [volumen |-> <<"9", "9", "9", ",", "0", "0">>,
          var_abs |-> <<"0", ",", "5", "0">>]

(* result orders of the query: by symbol ascending, descending, and rotated *)
ResultOrders(n) ==
    { [i \in 1..n |-> i], [i \in 1..n |-> n + 1 - i], [i \in 1..n |-> (i % n) + 1] }

Listings(max) ==
    UNION { { [i \in 1..n |-> [symbol |-> order[i],
                               volumen |-> QuoteOf(order[i]).volumen,
                               var_abs |-> QuoteOf(order[i]).var_abs]] :
                order \in ResultOrders(n) } : n \in 0..max }

(* generateStockImage line 301: the comma replaced before parseFloat *)
isUpImage(stock) ==
    LET n == parseFloat(CommaToPoint(stock.var_abs))
    IN  ~n.nan /\ n.val >= 0

ImageOf(chunk, current, total) ==
    [stocks |-> [i \in 1..Len(chunk) |-> [stock |-> chunk[i], up |-> isUpImage(chunk[i])]],
     current |-> current, total |-> total]

Top5Image(marketData) ==
    ImageOf(topVolumen(marketData), 1, 1)

(* allStocks.sort((a, b) => a.symbol.localeCompare(b.symbol)): ascending   *)
(* and stable                                                                *)
PlaceBySymbol(seq) ==
    [i \in 1..Len(seq) |->
        1 + Cardinality({j \in 1..Len(seq) :
                            \/ seq[j].symbol < seq[i].symbol
                            \/ seq[j].symbol = seq[i].symbol /\ j < i})]

SortBySymbol(seq) ==
    Arrange(seq, PlaceBySymbol(seq))

(* allStocks.slice(i, j), i and j counted from 0 *)
slice(seq, i, j) == SubSeq(seq, i + 1, IF j < Len(seq) THEN j ELSE Len(seq))

(* the loop with a chunk one short: slice(i, i + chunkSize - 1) *)
RECURSIVE stockChunksShort(_, _)
stockChunksShort(allStocks, i) ==
    IF i < Len(allStocks)
    THEN <<slice(allStocks, i, i + chunkSize - 1)>> \o stockChunksShort(allStocks, i + chunkSize)
    ELSE << >>

(* for (let i = 0; i < allStocks.length; i += chunkSize)                     *)
(*     stockChunks.push(allStocks.slice(i, i + chunkSize))                   *)
RECURSIVE stockChunks(_, _)
stockChunks(allStocks, i) ==
    IF i < Len(allStocks)
    THEN <<slice(allStocks, i, i + chunkSize)>> \o stockChunks(allStocks, i + chunkSize)
    ELSE << >>

(* one image per chunk, with pageInfo {current: i + 1, total: totalPages} *)
imageItems(marketData) ==
    LET chunks == stockChunks(SortBySymbol(marketData), 0)
    IN  [i \in 1..Len(chunks) |-> ImageOf(chunks[i], i, Len(chunks))]

(* what publishAllStocksToInstagram hands to ig.publish: an album of more    *)
(* than one image, a photo of one                                            *)
SummaryPost(marketData) ==
    LET items == imageItems(marketData)
    IN  [kind |-> IF Len(items) > 1 THEN "album" ELSE "photo",
         by |-> "publishAllStocksToInstagram", pages |-> items]

Top5Post(marketData) ==
    [kind |-> "photo", by |-> "publishToInstagram", pages |-> <<Top5Image(marketData)>>]

(* both functions throw before any work when not logged in or without rows *)
Refuses == ~instagram.igLoggedIn \/ instagram.marketData = << >>

ApiCall(post) == "ig.publish." \o post.kind

(* loginToInstagram, not awaited by the start-up code, completes *)
loginToInstagram ==
    /\ ~instagram.igLoggedIn
    /\ instagram' = [instagram EXCEPT !.igLoggedIn = TRUE]
    /\ NoOutput
    /\ UNCHANGED <<dashboard, variant, now, nextId, precios, cycles>>

JobEnded == {"idle", "failed", "done"}

(* cron fires at 13:00 and the job calls publishToInstagram *)
CronFires ==
    /\ instagram.job \in JobEnded
    /\ instagram' = [instagram EXCEPT !.job = "top5", !.calls = <<"publishToInstagram">>]
    /\ NoOutput
    /\ UNCHANGED <<dashboard, variant, now, nextId, precios, cycles>>

(* a job whose steps each have a try/catch of their own *)
JobTop5ThrowsGoesOn ==
    /\ instagram.job = "top5"
    /\ instagram' = [instagram EXCEPT
                        !.job = "pause",
                        !.calls = @ \o (IF Refuses THEN << >>
                                        ELSE <<ApiCall(Top5Post(instagram.marketData))>>)
                                    \o <<"throw", "catch">>]
    /\ NoOutput
    /\ UNCHANGED <<dashboard, variant, now, nextId, precios, cycles>>

(* publishToInstagram throws (refusal, or ig.publish.photo rejects) and the  *)
(* job's catch block logs it                                                 *)
JobTop5Throws ==
    /\ instagram.job = "top5"
    /\ instagram' = [instagram EXCEPT
                        !.job = "failed",
                        !.calls = @ \o (IF Refuses THEN << >>
                                        ELSE <<ApiCall(Top5Post(instagram.marketData))>>)
                                    \o <<"throw", "catch">>]
    /\ NoOutput
    /\ UNCHANGED <<dashboard, variant, now, nextId, precios, cycles>>

(* publishToInstagram publishes the Top-5 photo and returns *)
JobTop5Posts ==
    /\ instagram.job = "top5"
    /\ ~Refuses
    /\ LET post == Top5Post(instagram.marketData)
       IN  instagram' = [instagram EXCEPT
                            !.job = "pause",
                            !.post = post,
                            !.calls = @ \o <<ApiCall(post), "return">>]
    /\ NoOutput
    /\ UNCHANGED <<dashboard, variant, now, nextId, precios, cycles>>

(* the 30 s timeout resolves and the job calls publishAllStocksToInstagram *)
JobPauseEnds ==
    /\ instagram.job = "pause"
    /\ instagram' = [instagram EXCEPT
                        !.job = "summary",
                        !.calls = @ \o <<"30 s", "publishAllStocksToInstagram">>]
    /\ NoOutput
    /\ UNCHANGED <<dashboard, variant, now, nextId, precios, cycles>>

JobSummaryThrows ==
    /\ instagram.job = "summary"
    /\ instagram' = [instagram EXCEPT
                        !.job = "failed",
                        !.calls = @ \o (IF Refuses THEN << >>
                                        ELSE <<ApiCall(SummaryPost(instagram.marketData))>>)
                                    \o <<"throw", "catch">>]
    /\ NoOutput
    /\ UNCHANGED <<dashboard, variant, now, nextId, precios, cycles>>

JobSummaryPosts ==
    /\ instagram.job = "summary"
    /\ ~Refuses
    /\ LET post == SummaryPost(instagram.marketData)
       IN  instagram' = [instagram EXCEPT
                            !.job = "done",
                            !.post = post,
                            !.calls = @ \o <<ApiCall(post), "return">>]
    /\ NoOutput
    /\ UNCHANGED <<dashboard, variant, now, nextId, precios, cycles>>

PostResponse(endpoint, status, api) == [ep |-> endpoint, status |-> status, api |-> api]

(* GET /api/instagram/post-summary *)
PostSummary ==
    /\ IF Refuses
       THEN /\ resp' = PostResponse("post-summary", 500, "none")
            /\ UNCHANGED instagram
       ELSE LET post == Top5Post(instagram.marketData)
            IN  \/ /\ resp' = PostResponse("post-summary", 200, ApiCall(post))
                   /\ instagram' = [instagram EXCEPT !.post = post]
                \/ /\ resp' = PostResponse("post-summary", 500, ApiCall(post))
                   /\ UNCHANGED instagram
    /\ UNCHANGED <<dashboard, variant, now, nextId, precios, cycles>>

(* GET /api/instagram/post-all-summary *)
PostAllSummary ==
    /\ IF Refuses
       THEN /\ resp' = PostResponse("post-all-summary", 500, "none")
            /\ UNCHANGED instagram
       ELSE LET post == SummaryPost(instagram.marketData)
            IN  \/ /\ resp' = PostResponse("post-all-summary", 200, ApiCall(post))
                   /\ instagram' = [instagram EXCEPT !.post = post]
                \/ /\ resp' = PostResponse("post-all-summary", 500, ApiCall(post))
                   /\ UNCHANGED instagram
    /\ UNCHANGED <<dashboard, variant, now, nextId, precios, cycles>>

InitJob ==
    /\ variant = "ws"
    /\ now = 0
    /\ nextId = 1
    /\ precios = {}
    /\ cycles = [c \in Cycles |-> IdleCycle]
    /\ resp = NoResp
    /\ dashboard = NoDashboard
    /\ \E m \in Listings(MaxListed) :
          instagram = [NoInstagram EXCEPT !.marketData = m]

NextJob ==
    \/ loginToInstagram
    \/ CronFires
    \/ JobTop5Throws
    \/ JobTop5Posts
    \/ JobPauseEnds
    \/ JobSummaryThrows
    \/ JobSummaryPosts
    \/ PostSummary
    \/ PostAllSummary

SpecJob == InitJob /\ [][NextJob]_vars

(* the symbols of the pages, one page after the other *)
RECURSIVE PagesInOrder(_)
PagesInOrder(pages) ==
    IF pages = << >> THEN << >>
    ELSE [j \in 1..Len(Head(pages).stocks) |-> Head(pages).stocks[j].stock]
         \o PagesInOrder(Tail(pages))

(* C29: a summary published by publishAllStocksToInstagram from n >= 1 rows  *)
(* has ceil(n/5) pages of 1 to 5 stocks, page i labelled i of ceil(n/5),     *)
(* which read in order are the rows sorted by symbol, each once; it is an    *)
(* album when there are 2 or more pages and a photo when there is 1; and     *)
(* while there is no row or igLoggedIn is false nothing is published and     *)
(* the call throws (the endpoint answers 500 without calling the API).       *)
C29_SummaryPages ==
    /\ [](instagram.post.by = "publishAllStocksToInstagram"
          => LET n == Len(instagram.marketData)
                 pages == instagram.post.pages
                 total == (n + 4) \div 5
                 listed == PagesInOrder(pages)
             IN  /\ instagram.igLoggedIn
                 /\ n >= 1
                 /\ Len(pages) = total
                 /\ \A i \in 1..Len(pages) :
                       /\ Len(pages[i].stocks) \in 1..5
                       /\ pages[i].current = i
                       /\ pages[i].total = total
                 /\ Len(listed) = n
                 /\ \A k \in 1..Len(listed) :
                       \E j \in 1..n : instagram.marketData[j] = listed[k]
                 /\ \A k \in 1..(Len(listed) - 1) :
                       listed[k].symbol < listed[k + 1].symbol
                 /\ instagram.post.kind = IF total >= 2 THEN "album" ELSE "photo")
    /\ [][(~instagram.igLoggedIn \/ instagram.marketData = << >>)
          => /\ instagram'.post = instagram.post
             /\ resp'.ep = "post-all-summary"
                => resp'.status = 500 /\ resp'.api = "none"]_vars

(* eleven rows that the query did not return in symbol order, published as  *)
(* an album of three pages, the last with one stock                          *)
C29_Witness ==
    /\ instagram.post.by = "publishAllStocksToInstagram"
    /\ instagram.post.kind = "album"
    /\ Len(instagram.post.pages) = 3
    /\ Len(instagram.post.pages[3].stocks) = 1
    /\ instagram.marketData[1].symbol # 1

(* new entries of the run's trace *)
Logged(before, after) ==
    IF Len(after) > Len(before)
    THEN {after[i] : i \in (Len(before) + 1)..Len(after)}
    ELSE {}

(* C30: in a run of the scheduled job the Top-5 post is attempted first; the *)
(* summary is attempted only after the Top-5 post returned and the 30 s      *)
(* pause elapsed; an exception of either step is caught by the job and ends  *)
(* the run, so after a failed Top-5 post no summary is attempted; and no     *)
(* step calls ig.publish while igLoggedIn is false.                          *)
C30_JobOrder ==
    /\ [](LET calls == instagram.calls
          IN  /\ calls # << >> => calls[1] = "publishToInstagram"
              /\ \A i \in 1..Len(calls) :
                    /\ calls[i] = "publishAllStocksToInstagram"
                       => SubSeq(calls, 1, i - 1)
                              = <<"publishToInstagram", "ig.publish.photo", "return", "30 s">>
                    /\ calls[i] = "throw"
                       => /\ i + 1 = Len(calls)
                          /\ calls[i + 1] = "catch"
                          /\ instagram.job = "failed")
    /\ [][Logged(instagram.calls, instagram'.calls)
              \cap {"ig.publish.photo", "ig.publish.album"} # {}
          => instagram.igLoggedIn]_vars

(* a run that posted the Top-5 photo, paused and posted the album *)
C30_Witness ==
    /\ instagram.job = "done"
    /\ instagram.calls = <<"publishToInstagram", "ig.publish.photo", "return", "30 s",
                           "publishAllStocksToInstagram", "ig.publish.album", "return">>

=============================================================================
